---- MODULE Spec2Model ----
(***************************************************************************)
(* Model of PhishingMLDetector (src/ml-detector.js): the remote           *)
(* classification client with model failover, the response normalizer,    *)
(* the heuristic rule evaluator, the scoring orchestrator and the         *)
(* explanation generator.                                                  *)
(*                                                                         *)
(* Numbers.  A JavaScript number is modelled as an integer counting       *)
(* tenths of a point, so 64.6 is 646 and the integer 65 is 650.  A remote *)
(* prediction score s in [0,1] is written in thousandths, so that         *)
(* s * 100 (percent) is the same integer read in tenths.  NaN is a        *)
(* distinguished value that every arithmetic operator propagates and      *)
(* every comparison rejects, as IEEE-754 does.  Math.round yields whole   *)
(* numbers, which are kept in units of one (the caller-facing score).     *)
(*                                                                         *)
(* Strings.  A string is a sequence of tokens; each token stands for a    *)
(* literal piece of text.  RawAtoms tabulates, for every token of the     *)
(* vocabulary, which of the literal alternatives of the source's regular  *)
(* expressions and substring tests occur in it.  No alternative can match *)
(* across a token boundary in this vocabulary, except the x.*y patterns,  *)
(* which are modelled as "a token with x, later a token with y".          *)
(***************************************************************************)
EXTENDS Integers, Sequences, FiniteSets, TLC

-----------------------------------------------------------------------------
(* Bounds of the model                                                     *)

MaxPreds == 2

MaxRequests == 3

-----------------------------------------------------------------------------
(* JavaScript numbers                                                      *)

NaN == -1000000

IsNaN(x) == x = NaN

\* a * 100 for a score in thousandths: the same integer, read in tenths of a percent
Times100(s) == IF IsNaN(s) THEN NaN ELSE s

\* a - b on numbers in tenths
Minus(a, b) == IF IsNaN(a) \/ IsNaN(b) THEN NaN ELSE a - b

\* a >= n for a number a in tenths and a whole threshold n
AtLeast(a, n) == ~IsNaN(a) /\ a >= n * 10

\* Math.round: nearest whole number, halves up; NaN stays NaN
MathRound(a) == IF IsNaN(a) THEN NaN ELSE (a + 5) \div 10

\* a whole number n as a number in tenths
Whole(n) == n * 10

-----------------------------------------------------------------------------
(* Remote responses                                                        *)

NumModels == 2

Models == 0 .. (NumModels - 1)

\* the elements of a prediction list: {label, score} objects with the score
\* in thousandths (0.646, the out-of-range 1.5, 0.2; NaN: no score field,
\* undefined, which arithmetic turns into NaN), or null
Predictions ==
    {[isNull |-> FALSE, label |-> "SPAM", score |-> 646],
     [isNull |-> FALSE, label |-> "SPAM", score |-> 1500],
     [isNull |-> FALSE, label |-> "SPAM", score |-> NaN],
     [isNull |-> FALSE, label |-> "ham", score |-> 200],
     [isNull |-> FALSE, label |-> "neutral", score |-> 646],
     [isNull |-> TRUE, label |-> "neutral", score |-> NaN]}

PredictionLists == UNION {[1 .. n -> Predictions] : n \in 0 .. MaxPreds}

\* a response body after response.json(): an object that is not an array,
\* a flat list of predictions, a list nested one level, or text that is
\* not JSON at all (json() rejects)
Bodies == [shape : {"list", "nested"}, preds : PredictionLists]
    \cup {[shape |-> "object", preds |-> <<>>], [shape |-> "invalid", preds |-> <<>>]}

\* what fetch can produce: a success with a body, HTTP 410, another
\* non-success status, or a rejected promise (network failure)
Responses == [status : {"ok"}, body : Bodies]
    \cup [status : {"gone", "error", "raise"}, body : {[shape |-> "object", preds |-> <<>>]}]

\* String.prototype.toLowerCase on the label vocabulary
LabelToLowerCase(l) == IF l = "SPAM" THEN "spam" ELSE l

\* String.prototype.includes on lower-cased labels
LabelIncludes(l, w) == <<l, w>> \in {<<"spam", "spam">>, <<"ham", "ham">>}

IsSpamLabel(l) ==
    \/ LabelIncludes(LabelToLowerCase(l), "spam")
    \/ LabelIncludes(LabelToLowerCase(l), "phishing")
    \/ l = "LABEL_1"
    \/ l = "1"

IsHamLabel(l) ==
    \/ LabelIncludes(LabelToLowerCase(l), "ham")
    \/ LabelIncludes(LabelToLowerCase(l), "safe")
    \/ l = "LABEL_0"
    \/ l = "0"

\* the least index of a set of indices, 0 for the empty set
FirstIndex(S) == IF S = {} THEN 0 ELSE CHOOSE i \in S : \A j \in S : i <= j

\* predictions.find for the positive class: the index of the first
\* prediction with a spam label, 0 if there is none
SpamPred(preds) ==
    FirstIndex({i \in DOMAIN preds : ~preds[i].isNull /\ IsSpamLabel(preds[i].label)})

\* predictions.find for the negative class
HamPred(preds) ==
    FirstIndex({i \in DOMAIN preds : ~preds[i].isNull /\ IsHamLabel(preds[i].label)})

\* find evaluates p.label on every element up to the first match (hit, 0 if
\* none): a null element reached before the match raises a TypeError
FindThrows(preds, hit) ==
    \E i \in DOMAIN preds : preds[i].isNull /\ (hit = 0 \/ i < hit)

\* the predictions parseMLResult searches; an empty or non-array body has none
PredictionsOf(body) ==
    IF body.shape \in {"list", "nested"} /\ Len(body.preds) > 0 THEN body.preds ELSE <<>>

\* whether parseMLResult raises on this body
ParseThrows(body) ==
    LET preds == PredictionsOf(body)
    IN \/ FindThrows(preds, SpamPred(preds))
       \/ SpamPred(preds) = 0 /\ FindThrows(preds, HamPred(preds))

\* parseMLResult: {score, confidence, label}
ParseMLResult(body) ==
    LET preds == PredictionsOf(body)
        spam == SpamPred(preds)
        ham == HamPred(preds)
        isPhishing == spam # 0
        confidence ==
            IF spam # 0 THEN Times100(preds[spam].score)
            ELSE IF ham # 0 THEN Times100(Minus(1000, preds[ham].score))
            ELSE 0
        phishingScore == IF isPhishing THEN confidence ELSE Minus(Whole(100), confidence)
    IN [score |-> phishingScore,
        confidence |-> confidence,
        label |-> IF isPhishing THEN "PHISHING" ELSE "SAFE"]

-----------------------------------------------------------------------------
(* Email text                                                              *)

\* the vocabulary of literal text pieces emails are built from
Tokens == {"@", " ", "newsletter", "company", ".com", "service", "paypal", "PayPal",
           ".tk", "amazon", "won", "verify your account", "suspended",
           "will be closed", "$500", "password", "kindly", "dear customer",
           "bit.ly", "weekly update", "click here", "immediately",
           "verify your password", "paypal.bit.ly", "suspended immediately",
           "won $500"}

\* String.prototype.toLowerCase, token by token
ToLowerCase(tok) == IF tok = "PayPal" THEN "paypal" ELSE tok

\* the literal alternatives of the source's patterns that occur in a token
\* ("$digits" stands for a match of \$[\d,]+ )
RawAtoms(tok) ==
    CASE tok = "paypal" -> {"paypal"}
      [] tok = ".tk" -> {".tk"}
      [] tok = "amazon" -> {"amazon"}
      [] tok = "won" -> {"won"}
      [] tok = "verify your account" -> {"verify your account", "verify", "account"}
      [] tok = "suspended" -> {"suspended"}
      [] tok = "will be closed" -> {"will be closed"}
      [] tok = "$500" -> {"$digits", "$"}
      [] tok = "password" -> {"password"}
      [] tok = "kindly" -> {"kindly"}
      [] tok = "dear customer" -> {"dear customer"}
      [] tok = "bit.ly" -> {"bit.ly"}
      [] tok = "click here" -> {"click here", "click"}
      [] tok = "immediately" -> {"immediately"}
      [] tok = "@" -> {"@"}
      [] tok = "verify your password" -> {"verify", "password"}
      [] tok = "paypal.bit.ly" -> {"paypal", "bit.ly"}
      [] tok = "suspended immediately" -> {"suspended", "immediately"}
      [] tok = "won $500" -> {"won", "$digits", "$"}
      [] OTHER -> {}

\* RawAtoms tabulated over the vocabulary
AtomsOf == [tok \in Tokens |-> RawAtoms(tok)]

\* a string lower-cased
Lower(str) == [i \in DOMAIN str |-> ToLowerCase(str[i])]

\* str.includes(a) / str.match(/a/) for one literal alternative a
Has(str, a) == \E i \in DOMAIN str : a \in AtomsOf[str[i]]

\* str.match(/a.*b/): a, and later on b
HasThen(str, a, b) ==
    \E i, j \in DOMAIN str : i < j /\ a \in AtomsOf[str[i]] /\ b \in AtomsOf[str[j]]

HasAny(str, alts) == \E a \in alts : Has(str, a)

\* `${sender} ${subject} ${snippet}`.toLowerCase()
NormalizedText(email) ==
    Lower(email.sender \o <<" ">> \o email.subject \o <<" ">> \o email.snippet)

\* sender.split('@')[1] || '' : the text between the first and the second '@'
SenderDomain(sender) ==
    LET ats == {i \in DOMAIN sender : sender[i] = "@"}
        first == FirstIndex(ats)
        next == FirstIndex({i \in ats : i > first})
        stop == IF next = 0 THEN Len(sender) + 1 ELSE next
    IN IF first = 0 THEN <<>> ELSE SubSeq(sender, first + 1, stop - 1)

\* the brands of the impersonation rule, in the order brands.find tries them
Brands == <<"paypal", "amazon", "apple", "microsoft", "google", "bank">>

\* brands.find(b => text.includes(b)): index of the first brand in the text, 0 if none
MatchedBrand(text) ==
    FirstIndex({k \in DOMAIN Brands : Has(text, Brands[k])})

\* the brand-impersonation rule
BrandImpersonation(email) ==
    LET text == NormalizedText(email)
        k == MatchedBrand(text)
    IN k # 0 /\ email.sender # <<>> /\ ~Has(SenderDomain(email.sender), Brands[k])

\* the points of every rule of getEnhancedFallbackScore that matches, in source order
RulePoints(email) ==
    LET text == NormalizedText(email)
        pts(hit, n) == IF hit THEN n ELSE 0
    IN << pts(\/ Has(text, "verify your account")
              \/ HasThen(text, "account", "suspended")
              \/ Has(text, "confirm your identity")
              \/ Has(text, "unusual activity"), 40),
          pts(\/ Has(text, "urgent action")
              \/ HasThen(text, "click", "immediately")
              \/ Has(text, "suspended unless")
              \/ Has(text, "will be closed"), 35),
          pts(HasAny(text, {"won", "prize", "lottery", "million", "winner"}), 35),
          pts(\/ Has(text, "$digits")
              \/ \E w \in {"failed", "required", "update"} : HasThen(text, "payment", w), 30),
          pts(\/ HasAny(text, {"will be closed", "will be terminated", "will be deleted"})
              \/ Has(text, "lose access")
              \/ HasThen(text, "expire", "soon"), 30),
          pts(HasAny(text, {"social security", "ssn", "password", "credit card",
                            "bank account"}), 35),
          pts(HasAny(Lower(email.sender),
                     {".tk", ".ml", ".ga", ".xyz", "tempmail", "throwaway"}), 40),
          pts(HasAny(text, {"bit.ly", "tinyurl", "goo.gl"}), 20),
          pts(HasAny(text, {"dear customer", "dear user", "dear member"}), 15),
          pts(HasAny(text, {"kindly", "needful", "revert back"}), 10),
          pts(BrandImpersonation(email), 30) >>

RECURSIVE SumSeq(_)
SumSeq(s) == IF s = <<>> THEN 0 ELSE Head(s) + SumSeq(Tail(s))

Min(a, b) == IF a <= b THEN a ELSE b

\* GetEnhancedFallbackScore taking 100 off a sum above 100 instead of capping it
GetEnhancedFallbackScoreWraps(email) ==
    LET sum == SumSeq(RulePoints(email))
    IN IF sum > 100 THEN sum - 100 ELSE sum

\* getEnhancedFallbackScore: the sum of the matched rules, capped at 100 (a whole number)
GetEnhancedFallbackScore(email) == Min(SumSeq(RulePoints(email)), 100)

\* the destructuring of emailData raises when emailData is null or undefined
DestructureThrows(email) == email.shape = "nullData"

\* sender.match raises when sender is not a string
SenderMatchThrows(email) == email.shape = "numSender"

\* subject?.substring raises when subject is neither nullish nor a string
SubjectSubstringThrows(email) == email.shape = "numSubject"

\* whether getEnhancedFallbackScore raises
FallbackThrows(email) == DestructureThrows(email) \/ SenderMatchThrows(email)

\* whether generateReasons raises
ReasonsThrows(email) == DestructureThrows(email) \/ SenderMatchThrows(email)

\* the mode indicator generateReasons emits first
ModeIndicator(score, usedML) ==
    IF usedML
    THEN IF AtLeast(score, 65) THEN "AI detected phishing"
         ELSE IF AtLeast(score, 35) THEN "AI flagged suspicious"
         ELSE "AI verified safe"
    ELSE "Pattern detection (add API key for AI)"

\* the content signals of generateReasons, in the order they are checked
Signals(email) ==
    LET text == NormalizedText(email)
    IN << <<HasAny(text, {"verify", "confirm"}), "Verification request">>,
          <<HasAny(text, {"suspended", "locked"}), "Account suspension claim">>,
          <<HasAny(text, {"urgent", "immediately"}), "Urgency tactics">>,
          <<HasAny(text, {"won", "prize"}), "Prize scam">>,
          <<Has(text, "$"), "Money mentioned">>,
          <<Has(text, "click here"), "Click-bait">>,
          <<HasAny(Lower(email.sender), {".tk", ".ml", "tempmail"}), "Suspicious domain">>,
          <<HasAny(text, {"password", "credit card"}), "Sensitive info request">> >>

RECURSIVE Pushed(_)
\* the second components of the signals whose first component holds, in order
Pushed(sigs) ==
    IF sigs = <<>> THEN <<>>
    ELSE (IF Head(sigs)[1] THEN <<Head(sigs)[2]>> ELSE <<>>) \o Pushed(Tail(sigs))

MaxReasons == 5

\* GenerateReasons without the final slice(0, 5)
GenerateReasonsUntruncated(score, email, usedML) ==
    LET pushed == <<ModeIndicator(score, usedML)>> \o Pushed(Signals(email))
    IN IF Len(pushed) <= 1 THEN Append(pushed, "No red flags") ELSE pushed

\* GenerateReasons adding "No red flags" only to an empty list
GenerateReasonsNoAllClear(score, email, usedML) ==
    LET pushed == <<ModeIndicator(score, usedML)>> \o Pushed(Signals(email))
        reasons == IF Len(pushed) < 1 THEN Append(pushed, "No red flags") ELSE pushed
    IN SubSeq(reasons, 1, Min(Len(reasons), MaxReasons))

\* generateReasons
GenerateReasons(score, email, usedML) ==
    LET pushed == <<ModeIndicator(score, usedML)>> \o Pushed(Signals(email))
        reasons == IF Len(pushed) <= 1 THEN Append(pushed, "No red flags") ELSE pushed
    IN SubSeq(reasons, 1, Min(Len(reasons), MaxReasons))

-----------------------------------------------------------------------------
(* Scoring results                                                         *)

\* toFixed(0): the nearest whole number, halves away from zero
ToFixed0(a) ==
    IF IsNaN(a) THEN NaN
    ELSE IF a >= 0 THEN (a + 5) \div 10 ELSE 0 - ((5 - a) \div 10)

\* getErrorResult
GetErrorResult ==
    [score |-> 50,
     riskLevel |-> "medium",
     confidence |-> [text |-> "Unable to analyze", pct |-> 0],
     mlConfidence |-> 0,
     usedAI |-> FALSE,
     reasons |-> <<"Analysis error">>]

\* the value of result[c] while no result has been returned
NoResult ==
    [score |-> 0,
     riskLevel |-> "none",
     confidence |-> [text |-> "", pct |-> 0],
     mlConfidence |-> 0,
     usedAI |-> FALSE,
     reasons |-> <<>>]

\* the risk level analyzeEmail derives from the unrounded mlScore
RiskLevelOf(mlScore) ==
    IF AtLeast(mlScore, 65) THEN "high"
    ELSE IF AtLeast(mlScore, 35) THEN "medium"
    ELSE "low"

\* the confidence text analyzeEmail derives from mlScore, mlConfidence and the mode
ConfidenceOf(mlScore, mlConfidence, usedML) ==
    IF AtLeast(mlScore, 65)
    THEN IF usedML THEN [text |-> "AI: % phishing", pct |-> ToFixed0(mlConfidence)]
         ELSE [text |-> "High risk detected", pct |-> 0]
    ELSE IF AtLeast(mlScore, 35)
    THEN IF usedML THEN [text |-> "AI: % suspicious", pct |-> ToFixed0(mlConfidence)]
         ELSE [text |-> "Potentially suspicious", pct |-> 0]
    ELSE IF usedML
         THEN [text |-> "AI: % safe", pct |-> ToFixed0(Minus(Whole(100), mlConfidence))]
         ELSE [text |-> "Appears safe", pct |-> 0]

\* a completion of a block of code: a value, or a thrown exception
Value(r) == [threw |-> FALSE, value |-> r]

Thrown == [threw |-> TRUE, value |-> NoResult]

\* analyzeEmail from "Determine risk level" to its return statement: the
\* result built from mlScore; generateReasons may raise
BuildResult(email, mlScore, mlConfidence, usedML) ==
    IF ReasonsThrows(email) THEN Thrown
    ELSE Value([score |-> MathRound(mlScore),
                riskLevel |-> RiskLevelOf(mlScore),
                confidence |-> ConfidenceOf(mlScore, mlConfidence, usedML),
                mlConfidence |-> MathRound(mlConfidence),
                usedAI |-> usedML,
                reasons |-> GenerateReasons(mlScore, email, usedML)])

\* analyzeEmail on the pattern-detection path (no remote result):
\* mlScore = getEnhancedFallbackScore(emailData), mlConfidence = 0, usedML = false
HeuristicResult(email) ==
    IF FallbackThrows(email) THEN Thrown
    ELSE BuildResult(email, Whole(GetEnhancedFallbackScore(email)), 0, FALSE)

\* analyzeEmail after getMLPrediction returned mlResult
RemoteResult(email, ml) == BuildResult(email, ml.score, ml.confidence, TRUE)

\* OuterCatch without the try/catch: the exception reaches the caller
OuterCatchRethrows(completion) == completion

\* the outer catch of analyzeEmail: whatever the body throws becomes getErrorResult()
OuterCatch(completion) ==
    IF completion.threw THEN Value(GetErrorResult) ELSE completion

-----------------------------------------------------------------------------
(* Inputs                                                                  *)

Senders == {<<>>,
            <<"newsletter", "@", "company", ".com">>,
            <<"service", "@", "paypal", ".tk">>}

Subjects == {<<"weekly update">>, <<"won">>}

Snippets == {<<>>,
             <<"$500">>,
             <<"paypal", "verify your account">>}

\* emailData whose fields are strings
WellFormedEmails == [shape : {"ok"}, sender : Senders, subject : Subjects, snippet : Snippets]

\* emailData that is null, or has a number as sender or as subject
MalformedEmails ==
    [shape : {"nullData", "numSender", "numSubject"},
     sender : {<<>>}, subject : {<<>>}, snippet : {<<>>}]

Emails == WellFormedEmails \cup MalformedEmails

\* the longest field of the emails the scoring functions are checked on, in
\* text pieces
MaxFieldLen == 2

\* the strings of at most MaxFieldLen pieces of a vocabulary
Strings(vocab) == UNION {[1 .. n -> vocab] : n \in 0 .. MaxFieldLen}

\* the emails the scoring functions are checked on: every combination of
\* short fields, an absent field being the empty string its default is
EvalEmails ==
    [shape : {"ok"},
     sender : Strings({"@", "paypal"}),
     subject : Strings({"weekly update", "suspended immediately"}),
     snippet : Strings({"verify your password", "won $500"})]

NoEmail == [shape |-> "none", sender |-> <<>>, subject |-> <<>>, snippet |-> <<>>]

\* what chrome.storage may hold under huggingface_api_key ("undefined": nothing)
StoredKeys == {"undefined", "", "hf_token"}

\* this.apiKey when no key is set
NoKey == "null"

NoResponse == [status |-> "none", body |-> [shape |-> "object", preds |-> <<>>]]

\* the value of mlResult[c] while getMLPrediction has returned nothing
NoMLResult == [score |-> 0, confidence |-> 0, label |-> "none"]

\* the scoring calls that may be in progress at once
Calls == {"a", "b"}

-----------------------------------------------------------------------------
(* State                                                                   *)

VARIABLES
    modelLoaded,        \* this.modelLoaded
    apiKey,             \* this.apiKey
    currentModelIndex,  \* this.currentModelIndex
    loadPc,             \* where loadModel stands: "idle", "loadApiKey", "testing",
                        \* "returned" (its promise is fulfilled)
    testI,              \* the loop variable i of testAPIConnection
    testLog,            \* the status each request of the running (or just
                        \* returned) testAPIConnection settled with, in order
    pc,                 \* per call: "idle", "fetch" (awaiting fetch), "done"
                        \* (the promise is fulfilled), "thrown" (it is rejected)
    emailData,          \* per call: the argument of analyzeEmail
    frames,             \* per call: the getMLPrediction activations of the call,
                        \* outermost first: the index of the model each read into
                        \* currentModel and the status its fetch settled with
    response,           \* per call: the last response fetch settled with
    mlResult,           \* per call: the value getMLPrediction returned
    error,              \* per call: the message of the error analyzeEmail caught
                        \* around getMLPrediction
    result              \* per call: the value analyzeEmail returned

vars == <<modelLoaded, apiKey, currentModelIndex, loadPc, testI, testLog,
          pc, emailData, frames, response, mlResult, error, result>>

sessionVars == <<modelLoaded, apiKey, loadPc, testI, testLog>>

callVars == <<pc, emailData, frames, response, mlResult, error, result>>

Init ==
    /\ modelLoaded = FALSE
    /\ apiKey = NoKey
    /\ currentModelIndex = 0
    /\ loadPc = "idle"
    /\ testI = 0
    /\ testLog = <<>>
    /\ pc = [c \in Calls |-> "idle"]
    /\ emailData = [c \in Calls |-> NoEmail]
    /\ frames = [c \in Calls |-> <<>>]
    /\ response = [c \in Calls |-> NoResponse]
    /\ mlResult = [c \in Calls |-> NoMLResult]
    /\ error = [c \in Calls |-> "none"]
    /\ result = [c \in Calls |-> NoResult]

-----------------------------------------------------------------------------
(* Session initialization                                                  *)

\* loadModel up to the await of loadApiKey
LoadModel ==
    /\ loadPc = "idle"
    /\ loadPc' = "loadApiKey"
    /\ UNCHANGED <<modelLoaded, apiKey, currentModelIndex, testI, testLog, callVars>>

\* LoadApiKey forgetting to leave the remote mode when no key is stored
LoadApiKeyKeepsMode(stored) ==
    /\ loadPc = "loadApiKey"
    /\ apiKey' = IF stored \in {"undefined", ""} THEN NoKey ELSE stored
    /\ IF apiKey' = NoKey \/ apiKey' = ""
       THEN /\ modelLoaded' = modelLoaded
            /\ loadPc' = "returned"
            /\ testI' = testI
       ELSE /\ modelLoaded' = modelLoaded
            /\ loadPc' = "testing"
            /\ testI' = 0
    /\ UNCHANGED <<currentModelIndex, testLog, callVars>>

\* the storage callback of loadApiKey and loadModel's continuation: without a
\* key the session is heuristic and loadModel returns, with one
\* testAPIConnection sends its first request
LoadApiKey(stored) ==
    /\ loadPc = "loadApiKey"
    /\ apiKey' = IF stored \in {"undefined", ""} THEN NoKey ELSE stored
    /\ IF apiKey' = NoKey \/ apiKey' = ""
       THEN /\ modelLoaded' = FALSE
            /\ loadPc' = "returned"
            /\ testI' = testI
       ELSE /\ modelLoaded' = modelLoaded
            /\ loadPc' = "testing"
            /\ testI' = 0
    /\ UNCHANGED <<currentModelIndex, testLog, callVars>>

\* TestAPIConnection not recording which model answered
TestAPIConnectionKeepsIndex(resp) ==
    /\ loadPc = "testing"
    /\ testLog' = Append(testLog, resp.status)
    /\ IF resp.status = "ok"
       THEN /\ modelLoaded' = TRUE
            /\ loadPc' = "returned"
            /\ UNCHANGED <<currentModelIndex, testI>>
       ELSE IF testI + 1 < NumModels
       THEN /\ testI' = testI + 1
            /\ UNCHANGED <<currentModelIndex, modelLoaded, loadPc>>
       ELSE /\ modelLoaded' = FALSE
            /\ loadPc' = "returned"
            /\ UNCHANGED <<currentModelIndex, testI>>
    /\ UNCHANGED <<apiKey, callVars>>

\* testAPIConnection when the request to models[i] settles, and what follows
\* in loadModel when the test returns or throws
TestAPIConnection(resp) ==
    /\ loadPc = "testing"
    /\ testLog' = Append(testLog, resp.status)
    /\ IF resp.status = "ok"
       THEN /\ currentModelIndex' = testI
            /\ modelLoaded' = TRUE
            /\ loadPc' = "returned"
            /\ testI' = testI
       ELSE IF testI + 1 < NumModels
       THEN /\ testI' = testI + 1
            /\ UNCHANGED <<currentModelIndex, modelLoaded, loadPc>>
       ELSE /\ modelLoaded' = FALSE
            /\ loadPc' = "returned"
            /\ UNCHANGED <<currentModelIndex, testI>>
    /\ UNCHANGED <<apiKey, callVars>>

\* the caller of loadModel resumes; testAPIConnection's locals are gone
LoadModelReturns ==
    /\ loadPc = "returned"
    /\ loadPc' = "idle"
    /\ testI' = 0
    /\ testLog' = <<>>
    /\ UNCHANGED <<modelLoaded, apiKey, currentModelIndex, callVars>>

-----------------------------------------------------------------------------
(* Scoring calls                                                           *)

\* the promise analyzeEmail returned settles with the completion of its body
Settles(c, completion) ==
    /\ pc' = [pc EXCEPT ![c] = IF completion.threw THEN "thrown" ELSE "done"]
    /\ result' = [result EXCEPT ![c] = completion.value]

\* MLFailed answering a failed classification with the error result instead
\* of falling back to pattern detection
MLFailedDegraded(c, message) ==
    /\ error' = [error EXCEPT ![c] = message]
    /\ pc' = [pc EXCEPT ![c] = "done"]
    /\ result' = [result EXCEPT ![c] = GetErrorResult]
    /\ UNCHANGED mlResult

\* the catch block of analyzeEmail around getMLPrediction: the call falls
\* back to pattern detection for this call
MLFailed(c, message) ==
    /\ error' = [error EXCEPT ![c] = message]
    /\ Settles(c, OuterCatch(HeuristicResult(emailData[c])))
    /\ UNCHANGED mlResult

\* the frame on top of the call's getMLPrediction activations
TopFrame(c) == frames[c][Len(frames[c])]

\* the call's activations with the top one's fetch settled with status
FramesSettled(c, status) ==
    [frames[c] EXCEPT ![Len(frames[c])] = [model |-> @.model, status |-> status]]

\* analyzeEmail up to its first await (or to its return, when no request is sent)
AnalyzeEmail(c, email) ==
    /\ pc[c] = "idle"
    /\ emailData' = [emailData EXCEPT ![c] = email]
    /\ IF DestructureThrows(email) \/ SubjectSubstringThrows(email)
       THEN /\ Settles(c, OuterCatch(Thrown))
            /\ UNCHANGED frames
       ELSE IF modelLoaded /\ apiKey # NoKey /\ apiKey # ""
       THEN /\ frames' = [frames EXCEPT ![c] =
                            <<[model |-> currentModelIndex, status |-> "pending"]>>]
            /\ pc' = [pc EXCEPT ![c] = "fetch"]
            /\ UNCHANGED result
       ELSE /\ Settles(c, OuterCatch(HeuristicResult(email)))
            /\ UNCHANGED frames
    /\ UNCHANGED <<sessionVars, currentModelIndex, response, mlResult, error>>

\* OnGone switching to the next model but throwing instead of retrying
OnGoneNoRetry(c) ==
    /\ currentModelIndex' = (currentModelIndex + 1) % NumModels
    /\ MLFailed(c, "All models deprecated")
    /\ frames' = [frames EXCEPT ![c] = FramesSettled(c, "gone")]

\* OnGone retrying whenever a model is gone, without the wrap-around exit
OnGoneRetriesForever(c) ==
    /\ currentModelIndex' = (currentModelIndex + 1) % NumModels
    /\ Len(frames[c]) < MaxRequests
    /\ frames' = [frames EXCEPT ![c] =
                    Append(FramesSettled(c, "gone"),
                           [model |-> currentModelIndex', status |-> "pending"])]
    /\ UNCHANGED <<pc, mlResult, error, result>>

\* OnGone stepping to the next index without wrapping around
OnGoneNoWrap(c) ==
    /\ currentModelIndex' = currentModelIndex + 1
    /\ IF currentModelIndex' = 0
       THEN /\ MLFailed(c, "All models deprecated")
            /\ frames' = [frames EXCEPT ![c] = FramesSettled(c, "gone")]
       ELSE /\ Len(frames[c]) < MaxRequests
            /\ frames' = [frames EXCEPT ![c] =
                            Append(FramesSettled(c, "gone"),
                                   [model |-> currentModelIndex', status |-> "pending"])]
            /\ UNCHANGED <<pc, mlResult, error, result>>

\* getMLPrediction on HTTP 410: switch to the next model and call itself,
\* or throw when the index wrapped around to 0
OnGone(c) ==
    /\ currentModelIndex' = (currentModelIndex + 1) % NumModels
    /\ IF currentModelIndex' = 0
       THEN /\ MLFailed(c, "All models deprecated")
            /\ frames' = [frames EXCEPT ![c] = FramesSettled(c, "gone")]
       ELSE /\ Len(frames[c]) < MaxRequests
            /\ frames' = [frames EXCEPT ![c] =
                            Append(FramesSettled(c, "gone"),
                                   [model |-> currentModelIndex', status |-> "pending"])]
            /\ UNCHANGED <<pc, mlResult, error, result>>

\* OnTransient treating every failure like HTTP 410: the index advances
OnTransientAdvances(c, status) ==
    /\ MLFailed(c, IF status = "raise" THEN "fetch failed" ELSE "API status")
    /\ frames' = [frames EXCEPT ![c] = FramesSettled(c, status)]
    /\ currentModelIndex' = (currentModelIndex + 1) % NumModels

\* getMLPrediction on another non-success status or a rejected fetch: throw
OnTransient(c, status) ==
    /\ MLFailed(c, IF status = "raise" THEN "fetch failed" ELSE "API status")
    /\ frames' = [frames EXCEPT ![c] = FramesSettled(c, status)]
    /\ UNCHANGED currentModelIndex

\* OnOk going back to the first model after every success
OnOkResets(c, body) ==
    /\ IF body.shape = "invalid"
       THEN MLFailed(c, "invalid json")
       ELSE IF ParseThrows(body)
       THEN MLFailed(c, "TypeError")
       ELSE /\ mlResult' = [mlResult EXCEPT ![c] = ParseMLResult(body)]
            /\ Settles(c, OuterCatch(RemoteResult(emailData[c], mlResult'[c])))
            /\ UNCHANGED error
    /\ frames' = [frames EXCEPT ![c] = FramesSettled(c, "ok")]
    /\ currentModelIndex' = 0

\* getMLPrediction on success: response.json(), then parseMLResult; and
\* analyzeEmail's continuation with the value returned
OnOk(c, body) ==
    /\ IF body.shape = "invalid"
       THEN MLFailed(c, "invalid json")
       ELSE IF ParseThrows(body)
       THEN MLFailed(c, "TypeError")
       ELSE /\ mlResult' = [mlResult EXCEPT ![c] = ParseMLResult(body)]
            /\ Settles(c, OuterCatch(RemoteResult(emailData[c], mlResult'[c])))
            /\ UNCHANGED error
    /\ frames' = [frames EXCEPT ![c] = FramesSettled(c, "ok")]
    /\ UNCHANGED currentModelIndex

\* GetMLPrediction switching the remote mode off when the request fails
GetMLPredictionDisables(c, resp) ==
    /\ pc[c] = "fetch"
    /\ response' = [response EXCEPT ![c] = resp]
    /\ CASE resp.status = "gone" -> OnGone(c)
         [] resp.status \in {"error", "raise"} -> OnTransient(c, resp.status)
         [] resp.status = "ok" -> OnOk(c, resp.body)
    /\ modelLoaded' = (modelLoaded /\ resp.status = "ok")
    /\ UNCHANGED <<apiKey, loadPc, testI, testLog, emailData>>

\* getMLPrediction when fetch settles, and analyzeEmail's continuation when
\* getMLPrediction returns or throws
GetMLPrediction(c, resp) ==
    /\ pc[c] = "fetch"
    /\ response' = [response EXCEPT ![c] = resp]
    /\ CASE resp.status = "gone" -> OnGone(c)
         [] resp.status \in {"error", "raise"} -> OnTransient(c, resp.status)
         [] resp.status = "ok" -> OnOk(c, resp.body)
    /\ UNCHANGED <<sessionVars, emailData>>

\* the caller takes the settled promise; the call slot is free for the next call
Consume(c) ==
    /\ pc[c] \in {"done", "thrown"}
    /\ pc' = [pc EXCEPT ![c] = "idle"]
    /\ emailData' = [emailData EXCEPT ![c] = NoEmail]
    /\ frames' = [frames EXCEPT ![c] = <<>>]
    /\ response' = [response EXCEPT ![c] = NoResponse]
    /\ mlResult' = [mlResult EXCEPT ![c] = NoMLResult]
    /\ error' = [error EXCEPT ![c] = "none"]
    /\ result' = [result EXCEPT ![c] = NoResult]
    /\ UNCHANGED <<sessionVars, currentModelIndex>>

-----------------------------------------------------------------------------
(* Specifications                                                          *)

\* nothing is in progress: no call is between its start and its return to
\* the caller, and loadModel is not running
Quiet == loadPc = "idle" /\ \A c \in Calls : pc[c] = "idle"

\* one operation at a time: an operation starts only when nothing is in progress
SeqNext ==
    \/ Quiet /\ LoadModel
    \/ \E stored \in StoredKeys : LoadApiKey(stored)
    \/ \E resp \in Responses : TestAPIConnection(resp)
    \/ LoadModelReturns
    \/ \E c \in Calls, email \in Emails : Quiet /\ AnalyzeEmail(c, email)
    \/ \E c \in Calls, resp \in Responses : GetMLPrediction(c, resp)
    \/ \E c \in Calls : Consume(c)

SeqSpec == Init /\ [][SeqNext]_vars

\* the scoring functions on their own: one caller's calls, one after the
\* other, on a session that was never initialized, so that every call is
\* scored by getEnhancedFallbackScore and explained by generateReasons
EvalNext ==
    \/ Quiet /\ \E email \in EvalEmails : AnalyzeEmail("a", email)
    \/ Consume("a")

EvalSpec == Init /\ [][EvalNext]_vars

\* the inputs of the interleaved specification: one email, and of the
\* successful responses the one with the single prediction SPAM 0.646
RaceEmails ==
    {e \in WellFormedEmails :
        e.sender = <<>> /\ e.subject = <<"won">> /\ e.snippet = <<>>}

RaceResponses ==
    {r \in Responses :
        r.status = "ok" =>
            /\ r.body.shape = "list"
            /\ r.body.preds = <<[isNull |-> FALSE, label |-> "SPAM", score |-> 646]>>}

\* operations interleave at their awaits: loadModel and every call may be in
\* progress at once
Next ==
    \/ LoadModel
    \/ \E stored \in StoredKeys : LoadApiKey(stored)
    \/ \E resp \in RaceResponses : TestAPIConnection(resp)
    \/ LoadModelReturns
    \/ \E c \in Calls, email \in RaceEmails : AnalyzeEmail(c, email)
    \/ \E c \in Calls, resp \in RaceResponses : GetMLPrediction(c, resp)
    \/ \E c \in Calls : Consume(c)

Spec == Init /\ [][Next]_vars

\* a session with finitely many scoring calls: it is initialized until a key
\* is found, and each caller calls once.  Requests settle at any time and in
\* any order
LiveNext ==
    \/ apiKey = NoKey /\ LoadModel
    \/ \E stored \in StoredKeys : LoadApiKey(stored)
    \/ \E resp \in RaceResponses : TestAPIConnection(resp)
    \/ LoadModelReturns
    \/ \E c \in Calls, email \in RaceEmails : AnalyzeEmail(c, email)
    \/ \E c \in Calls, resp \in RaceResponses : GetMLPrediction(c, resp)

\* every request eventually settles (fetch resolves or rejects).  For the
\* request of a scoring call this is weak fairness of its GetMLPrediction
\* step, which is enabled exactly while pc[c] = "fetch", written out
RequestsSettle ==
    /\ WF_vars(\E resp \in RaceResponses : TestAPIConnection(resp))
    /\ \A c \in Calls :
          \/ []<>(pc[c] # "fetch")
          \/ []<><<\E resp \in RaceResponses : GetMLPrediction(c, resp)>>_vars

LiveSpec == Init /\ [][LiveNext]_vars /\ RequestsSettle

-----------------------------------------------------------------------------
(* Vocabulary of the properties                                            *)

\* the call has returned to its caller (the promise is fulfilled)
Done(c) == pc[c] = "done"

\* the models the call requested that answered with the given status
Answered(c, status) ==
    {frames[c][i].model : i \in {k \in DOMAIN frames[c] : frames[c][k].status = status}}

\* the call issued at least one request, and its first went to model m
StartedAt(c, m) == frames[c] # <<>> /\ frames[c][1].model = m

\* getMLPrediction threw: analyzeEmail caught an error around it
ClassifyFailed(c) == error[c] # "none"

\* getMLPrediction returned a value
ClassifyReturned(c) == mlResult[c] # NoMLResult

WellFormed(email) == email.shape = "ok"

-----------------------------------------------------------------------------
(* Claims                                                                  *)

\* C1: remote failover.  A call that started with currentModelIndex = 0,
\* to which model 0 answered only HTTP 410 and model 1 only success (with a
\* body parseMLResult accepts), has by its return requested model 0 then
\* model 1, getMLPrediction returned parseMLResult of model 1's body, and
\* currentModelIndex is 1.
C1_Failover ==
    \A c \in Calls :
        ( /\ Done(c)
          /\ StartedAt(c, 0)
          /\ \A i \in DOMAIN frames[c] :
                frames[c][i].status = (IF frames[c][i].model = 0 THEN "gone" ELSE "ok")
          /\ response[c].body.shape # "invalid"
          /\ ~ParseThrows(response[c].body) )
        => /\ frames[c] = <<[model |-> 0, status |-> "gone"], [model |-> 1, status |-> "ok"]>>
           /\ ~ClassifyFailed(c)
           /\ mlResult[c] = ParseMLResult(response[c].body)
           /\ currentModelIndex = 1

\* C1 witness: a call has failed over from model 0 to model 1 and returned
\* the remote result
C1_Witness ==
    \E c \in Calls :
        /\ Done(c)
        /\ frames[c] = <<[model |-> 0, status |-> "gone"], [model |-> 1, status |-> "ok"]>>
        /\ result[c].usedAI
        /\ currentModelIndex = 1

\* C2: remote exhaustion.  A call all of whose requests were answered with
\* HTTP 410 ends, whatever index it started at, with getMLPrediction failing
\* as exhausted, and for an email with string fields analyzeEmail returns the
\* pattern-detection result: usedAI false, score getEnhancedFallbackScore(email),
\* not the error result.
C2_Exhaustion ==
    \A c \in Calls :
        ( /\ Done(c)
          /\ frames[c] # <<>>
          /\ \A i \in DOMAIN frames[c] : frames[c][i].status = "gone" )
        => /\ error[c] = "All models deprecated"
           /\ ~ClassifyReturned(c)
           /\ WellFormed(emailData[c]) =>
                /\ result[c].usedAI = FALSE
                /\ result[c].score = GetEnhancedFallbackScore(emailData[c])
                /\ result[c].reasons # GetErrorResult.reasons
                /\ result[c] = HeuristicResult(emailData[c]).value

\* C2 witness: a call that started at index 1 was exhausted and returned a
\* heuristic score above zero
C2_Witness ==
    \E c \in Calls :
        /\ Done(c)
        /\ frames[c] = <<[model |-> 1, status |-> "gone"]>>
        /\ error[c] = "All models deprecated"
        /\ WellFormed(emailData[c])
        /\ result[c].score = 100

\* C3 (as claimed): a call fails as exhausted only if every configured model
\* answered HTTP 410 to a request of that call.
C3_ExhaustedOnlyIfAllGone ==
    \A c \in Calls :
        (Done(c) /\ error[c] = "All models deprecated")
        => \A m \in Models : m \in Answered(c, "gone")

\* C4: a transient failure leaves the index alone.  In the step in which a
\* call's request settles with a non-success status other than 410, or with
\* a rejected fetch, getMLPrediction throws, and currentModelIndex keeps its
\* value, which is the index of the model that request went to; a call that
\* starts sends its first request to the model at currentModelIndex and does
\* not change the index, and handing the result to the caller does not either.
C4_TransientKeepsIndex ==
    [][\A c \in Calls :
          /\ ( /\ pc[c] = "fetch"
               /\ response'[c] # response[c]
               /\ response'[c].status \in {"error", "raise"} )
             => /\ pc'[c] = "done"
                /\ ClassifyFailed(c)'
                /\ ~ClassifyReturned(c)'
                /\ currentModelIndex' = currentModelIndex
                /\ currentModelIndex' = TopFrame(c).model
          /\ (pc[c] = "idle" /\ pc'[c] = "fetch")
             => /\ frames'[c] = <<[model |-> currentModelIndex, status |-> "pending"]>>
                /\ currentModelIndex' = currentModelIndex
          /\ (pc[c] = "done" /\ pc'[c] = "idle")
             => currentModelIndex' = currentModelIndex
      ]_vars

\* C4 witness: a call whose request to model 1 failed with a non-410 status
\* has returned and the index is still 1
C4_Witness ==
    \E c \in Calls :
        /\ Done(c)
        /\ frames[c] = <<[model |-> 1, status |-> "error"]>>
        /\ ClassifyFailed(c)
        /\ currentModelIndex = 1

\* an exception is raised outside the remote path: by the destructuring of
\* emailData, by subject.substring, or by sender.match
RaisesElsewhere(email) ==
    DestructureThrows(email) \/ SubjectSubstringThrows(email) \/ SenderMatchThrows(email)

\* C5: analyzeEmail never throws.  No call's promise is rejected; every
\* result returned has a risk level and reasons; when getMLPrediction failed
\* (transport error, non-success status, exhaustion, invalid JSON or an
\* exception in parseMLResult) and nothing else raised, the result is the
\* pattern-detection result with usedAI false; when something else raised,
\* the result is exactly getErrorResult().
C5_NeverThrows ==
    \A c \in Calls :
        /\ pc[c] # "thrown"
        /\ Done(c) =>
            /\ result[c].riskLevel \in {"low", "medium", "high"}
            /\ result[c].reasons # <<>>
            /\ (ClassifyFailed(c) /\ ~RaisesElsewhere(emailData[c])) =>
                    /\ result[c].usedAI = FALSE
                    /\ result[c].score = GetEnhancedFallbackScore(emailData[c])
                    /\ result[c] = HeuristicResult(emailData[c]).value
            /\ RaisesElsewhere(emailData[c]) =>
                    /\ result[c] = GetErrorResult
                    /\ result[c].score = 50
                    /\ result[c].riskLevel = "medium"
                    /\ result[c].confidence.text = "Unable to analyze"
                    /\ result[c].reasons = <<"Analysis error">>

\* C5 witness: parseMLResult raised on a null prediction and the call
\* returned the pattern-detection result
C5_Witness ==
    \E c \in Calls :
        /\ Done(c)
        /\ error[c] = "TypeError"
        /\ WellFormed(emailData[c])
        /\ result[c].usedAI = FALSE
        /\ result[c].score = 65

\* the risk level the score bands assign to a whole score
RiskBand(score) ==
    IF score >= 65 THEN "high" ELSE IF score >= 35 THEN "medium" ELSE "low"

\* C6 (as claimed): in every result returned, riskLevel is the band of the
\* returned integer score: in heuristic mode, in the error result, and in
\* remote mode whenever the remote phishing score lies in [0,100].
C6_RiskIsFunctionOfScore ==
    \A c \in Calls :
        ( /\ Done(c)
          /\ result[c].usedAI =>
                (~IsNaN(mlResult[c].score) /\ mlResult[c].score \in 0 .. Whole(100)) )
        => result[c].riskLevel = RiskBand(result[c].score)

\* C7 (as claimed): the score of every result returned is an integer in
\* [0,100], whatever the remote response was.
C7_ScoreInRange ==
    \A c \in Calls : Done(c) => (~IsNaN(result[c].score) /\ result[c].score \in 0 .. 100)

\* C8 (as claimed): when the response holds no positive-class prediction but
\* a negative-class prediction with score s, getMLPrediction returns
\* score (1 - s) * 100 and label SAFE.
C8_NegativeClass ==
    \A c \in Calls :
        LET preds == PredictionsOf(response[c].body)
        IN ( /\ Done(c)
             /\ ClassifyReturned(c)
             /\ SpamPred(preds) = 0
             /\ HamPred(preds) # 0 )
           => /\ mlResult[c].score = Times100(Minus(1000, preds[HamPred(preds)].score))
              /\ mlResult[c].label = "SAFE"

\* C9 (as claimed): for a successful response whose body is valid JSON and
\* holds neither a positive-class nor a negative-class prediction (an empty
\* list, an object, only unknown labels), parseMLResult does not throw and
\* returns score 0 and label SAFE, and the call returns score 0 and risk low.
C9_GracefulDegrade ==
    \A c \in Calls :
        LET preds == PredictionsOf(response[c].body)
        IN ( /\ Done(c)
             /\ response[c].status = "ok"
             /\ response[c].body.shape # "invalid"
             /\ \A i \in DOMAIN preds : ~preds[i].isNull
             /\ SpamPred(preds) = 0
             /\ HamPred(preds) = 0 )
           => /\ ~ClassifyFailed(c)
              /\ mlResult[c].score = 0
              /\ mlResult[c].label = "SAFE"
              /\ WellFormed(emailData[c]) =>
                    (result[c].score = 0 /\ result[c].riskLevel = "low")

\* C10: sticky routing.  In the step in which getMLPrediction returns
\* successfully, currentModelIndex becomes (or stays) the index of the model
\* whose response is returned, and if the call received no HTTP 410 the index
\* is not changed; a call that starts sends its first request to the model at
\* currentModelIndex without changing the index, as does handing a result to
\* the caller: so the next call's first request goes to the model that last
\* answered.
C10_StickyRouting ==
    [][\A c \in Calls :
          /\ ( /\ pc[c] = "fetch"
               /\ response'[c] # response[c]
               /\ response'[c].status = "ok"
               /\ ClassifyReturned(c)' )
             => /\ currentModelIndex' = TopFrame(c).model
                /\ frames'[c][Len(frames'[c])] = [model |-> currentModelIndex', status |-> "ok"]
                /\ Answered(c, "gone")' = {} =>
                      /\ currentModelIndex' = currentModelIndex
                      /\ currentModelIndex' = frames[c][1].model
          /\ (pc[c] = "idle" /\ pc'[c] = "fetch")
             => /\ frames'[c] = <<[model |-> currentModelIndex, status |-> "pending"]>>
                /\ currentModelIndex' = currentModelIndex
          /\ (pc[c] = "done" /\ pc'[c] = "idle")
             => currentModelIndex' = currentModelIndex
      ]_vars

\* C10 witness: a call was answered by model 1 at its first request, and the
\* index is 1
C10_Witness ==
    \E c \in Calls :
        /\ Done(c)
        /\ frames[c] = <<[model |-> 1, status |-> "ok"]>>
        /\ ClassifyReturned(c)
        /\ currentModelIndex = 1

\* a step of a scoring call: the call starts, one of its requests settles, or
\* its caller takes the result
CallStep(c) == pc'[c] # pc[c] \/ frames'[c] # frames[c]

\* C11: frame effect of scoring.  No step of a scoring call, one whose
\* request fails included, changes modelLoaded or apiKey: they keep the values
\* the last loadModel gave them, whatever runs in between.
C11_ScoringKeepsSession ==
    [][\A c \in Calls :
          CallStep(c) => /\ modelLoaded' = modelLoaded
                         /\ apiKey' = apiKey
      ]_vars

\* C11 witness: a call whose remote request failed has returned, and the
\* session is still in remote mode
C11_Witness ==
    \E c \in Calls :
        /\ Done(c)
        /\ frames[c] # <<>>
        /\ ClassifyFailed(c)
        /\ modelLoaded
        /\ apiKey = "hf_token"

\* the session has no credential
NoCredential == apiKey = NoKey \/ apiKey = ""

\* C12: heuristic mode.  When loadModel finds no credential (none stored, or
\* the empty string) it sends no connection-test request and leaves
\* modelLoaded false; and a scoring call that starts while the session has no
\* credential returns at once, without a remote request, with usedAI false
\* and, for an email whose fields are strings, the score
\* getEnhancedFallbackScore gives.
C12_HeuristicMode ==
    /\ [](NoCredential => ~modelLoaded)
    /\ [][ /\ (loadPc = "loadApiKey" /\ loadPc' # loadPc /\ NoCredential')
              => /\ loadPc' = "returned"
                 /\ testLog' = <<>>
                 /\ ~modelLoaded'
           /\ \A c \in Calls :
                 (pc[c] = "idle" /\ pc'[c] # "idle" /\ NoCredential)
                 => /\ pc'[c] = "done"
                    /\ frames'[c] = <<>>
                    /\ ~result'[c].usedAI
                    /\ WellFormed(emailData'[c]) =>
                          result'[c].score = GetEnhancedFallbackScore(emailData'[c])
         ]_vars

\* C12 witness: after a loadModel that found the stored key empty, a call
\* has scored a suspicious email by pattern detection
C12_Witness ==
    \E c \in Calls :
        /\ Done(c)
        /\ NoCredential
        /\ loadPc = "idle"
        /\ WellFormed(emailData[c])
        /\ frames[c] = <<>>
        /\ result[c].score = 100
        /\ ~result[c].usedAI

\* the position of the first success in the statuses of a connection test,
\* 0 when there is none
FirstOk(log) == FirstIndex({i \in DOMAIN log : log[i] = "ok"})

\* C13: connection test.  With a credential, testAPIConnection requests the
\* models one at a time in priority order, each at most once, and stops at
\* the first success: when loadModel returns after a success,
\* currentModelIndex is the smallest index whose model answered with success
\* and modelLoaded is true; when every model failed (HTTP 410, another status
\* or a rejected fetch, in any mix) modelLoaded is false and
\* currentModelIndex is what it was before the test.
C13_ConnectionTest ==
    /\ [](loadPc = "testing" =>
            /\ testI \in Models
            /\ Len(testLog) = testI
            /\ FirstOk(testLog) = 0)
    /\ []((loadPc = "returned" /\ ~NoCredential) =>
            IF FirstOk(testLog) # 0
            THEN /\ Len(testLog) = FirstOk(testLog)
                 /\ currentModelIndex = FirstOk(testLog) - 1
                 /\ modelLoaded
            ELSE /\ Len(testLog) = NumModels
                 /\ ~modelLoaded)
    /\ [][(loadPc = "testing" /\ FirstOk(testLog') = 0)
             => currentModelIndex' = currentModelIndex]_vars

\* C13 witness: the first model answered HTTP 410 and the second success
C13_Witness ==
    /\ loadPc = "returned"
    /\ testLog = <<"gone", "ok">>
    /\ currentModelIndex = 1
    /\ modelLoaded

\* the call has returned the result of pattern detection for an email whose
\* fields are strings
ScoredByPatterns(c) ==
    /\ Done(c)
    /\ WellFormed(emailData[c])
    /\ frames[c] = <<>>

\* the text pieces added to a field
AddedTokens == {"@", "amazon", "paypal.bit.ly", "kindly"}

\* str with the piece tok added after its first i pieces
Insert(str, i, tok) == SubSeq(str, 1, i) \o <<tok>> \o SubSeq(str, i + 1, Len(str))

\* the emails that are email with one piece added somewhere in one field
WithAdded(email, field) ==
    {[email EXCEPT ![field] = Insert(@, i, tok)] :
        i \in 0 .. Len(email[field]), tok \in AddedTokens}

ReasonScores == {0, 349, 350, 649, 650, 1000, NaN}

\* the first entry generateReasons may give in each mode
ModeIndicators(usedML) ==
    IF usedML
    THEN {"AI detected phishing", "AI flagged suspicious", "AI verified safe"}
    ELSE {"Pattern detection (add API key for AI)"}

\* a sequence of between 1 and 5 entries, none repeated
BoundedDistinct(reasons) ==
    /\ Len(reasons) >= 1
    /\ Len(reasons) <= 5
    /\ \A i, j \in DOMAIN reasons : reasons[i] = reasons[j] => i = j

\* C15: explanation bound.  For every score, email and mode generateReasons
\* returns between 1 and 5 reasons, none repeated, the first being the mode
\* indicator; so the reasons of every result analyzeEmail returns are
\* non-empty and at most 5.
C15_ReasonsBounded ==
    \A c \in Calls :
        Done(c) =>
            /\ BoundedDistinct(result[c].reasons)
            /\ result[c].reasons[1] \in ModeIndicators(result[c].usedAI)
            /\ \A score \in ReasonScores, usedML \in BOOLEAN :
                  /\ BoundedDistinct(GenerateReasons(score, emailData[c], usedML))
                  /\ GenerateReasons(score, emailData[c], usedML)[1] \in ModeIndicators(usedML)

\* C15 witness: a result for an email with six content signals holds the mode
\* indicator and the first four of them
C15_Witness ==
    \E c \in Calls :
        /\ Done(c)
        /\ Len(Pushed(Signals(emailData[c]))) = 6
        /\ result[c].reasons =
              <<"Pattern detection (add API key for AI)", "Verification request",
                "Account suspension claim", "Urgency tactics", "Prize scam">>

\* C16: all clear.  An email with string fields (an absent field is the empty
\* string) that matches no rule of getEnhancedFallbackScore and no signal of
\* generateReasons, scored by pattern detection, gets score 0, riskLevel low
\* and exactly the reasons "Pattern detection (add API key for AI)" and
\* "No red flags".
C16_AllClear ==
    \A c \in Calls :
        ( /\ ScoredByPatterns(c)
          /\ \A k \in DOMAIN RulePoints(emailData[c]) : RulePoints(emailData[c])[k] = 0
          /\ \A k \in DOMAIN Signals(emailData[c]) : ~Signals(emailData[c])[k][1] )
        => /\ result[c].score = 0
           /\ result[c].riskLevel = "low"
           /\ result[c].reasons = <<"Pattern detection (add API key for AI)", "No red flags">>

\* C16 witness: an email with an address and a subject that match nothing was
\* scored 0
C16_Witness ==
    \E c \in Calls :
        /\ ScoredByPatterns(c)
        /\ emailData[c].sender = <<"@">>
        /\ emailData[c].subject = <<"weekly update">>
        /\ emailData[c].snippet = <<>>
        /\ result[c].score = 0
        /\ result[c].riskLevel = "low"
        /\ Len(result[c].reasons) = 2

\* the call waits for a request and, were it answered HTTP 410, would send
\* one more request than MaxRequests allows
AtRequestBound(c) ==
    /\ pc[c] = "fetch"
    /\ Len(frames[c]) >= MaxRequests
    /\ (currentModelIndex + 1) % NumModels # 0

\* C17: termination.  In a session with finitely many scoring calls that
\* interleave at their requests and share currentModelIndex, if every request
\* eventually settles then every call eventually returns, whatever the models
\* answer: the retry on HTTP 410 does not go on forever (no call ever needs
\* more than MaxRequests requests).
C17_Terminates ==
    /\ \A c \in Calls : (pc[c] = "fetch") ~> (pc[c] = "done")
    /\ [](\A c \in Calls : ~AtRequestBound(c))

\* C17 witness: a call has returned after three requests, the index having
\* been moved under it by the other call
C17_Witness ==
    \E c \in Calls :
        /\ Done(c)
        /\ Len(frames[c]) = 3
        /\ \A i \in DOMAIN frames[c] : frames[c][i].status = "gone"

\* every request of the call that has settled was answered as the models of
\* the failover scenario answer: model 0 with HTTP 410, model 1 with success
FirstGoneSecondOk(c) ==
    \A i \in DOMAIN frames[c] :
        frames[c][i].status \in {"pending", IF frames[c][i].model = 0 THEN "gone" ELSE "ok"}

\* C18: failover under interleaving.  When model 0 always answers HTTP 410
\* and model 1 always success, and two interleaved calls both sent their
\* first request with currentModelIndex = 0, each call returns model 1's
\* result with usedAI true: a call that finds the index already moved on
\* fails over again and does not end as exhausted.
C18_BothFailOver ==
    \A c \in Calls :
        ( /\ Done(c)
          /\ \A d \in Calls : StartedAt(d, 0) /\ FirstGoneSecondOk(d) )
        => /\ ~ClassifyFailed(c)
           /\ result[c].usedAI
           /\ TopFrame(c) = [model |-> 1, status |-> "ok"]

\* C19: bounded retries.  Under every interleaving a call has at most one
\* request in flight, and sends in total at most as many requests as there
\* are models.
C19_BoundedRetries ==
    \A c \in Calls :
        /\ \A i \in DOMAIN frames[c] : frames[c][i].status = "pending" => i = Len(frames[c])
        /\ Len(frames[c]) <= NumModels

\* C20: the model index stays in range.  In every state reachable by
\* interleaving loadModel, its connection test and scoring calls,
\* 0 <= currentModelIndex < models.length; so do the index the connection
\* test requests and the index of every request a call sent.
C20_IndexInRange ==
    /\ currentModelIndex \in Models
    /\ loadPc = "testing" => testI \in Models
    /\ \A c \in Calls : \A i \in DOMAIN frames[c] : frames[c][i].model \in Models

\* C20 witness: the index has wrapped around to 0 under a call that waits for
\* model 1, while a connection test is at its second model
C20_Witness ==
    /\ currentModelIndex = 0
    /\ loadPc = "testing"
    /\ testI = 1
    /\ \E c \in Calls :
          /\ pc[c] = "fetch"
          /\ TopFrame(c).model = 1
          /\ Len(frames[c]) = 2

====
